---- MODULE Spec2Model ----
(***************************************************************************)
(* The Streamlit script src/main.py as a state machine.  One run of the    *)
(* script is the linear sequence read -> parse -> dupes -> missing ->      *)
(* invalid -> cols -> tab2 -> tab3 -> tab4 -> tab5 -> done; a widget       *)
(* interaction reruns the script from the top on the same uploaded file.   *)
(*                                                                         *)
(* A cell is a record [t, n]: t is "na" (NaN / NaT), "num", "str" or       *)
(* "date".  Numbers are held in halves (n = 2 * value) so that the median  *)
(* of an even number of integers is exact; a text is held as its position  *)
(* in the lexicographically sorted dictionary Text; a date is held as      *)
(* yyyymmdd.                                                               *)
(***************************************************************************)
EXTENDS Integers, Sequences, FiniteSets, TLC

VARIABLES uploaded_file, missing_option, df, columns, dtype,
          before_dupes, after_dupes, invalid_rows,
          numeric_cols, categorical_cols, pc, err

vars == <<uploaded_file, missing_option, df, columns, dtype,
          before_dupes, after_dupes, invalid_rows,
          numeric_cols, categorical_cols, pc, err>>

(* ------------------------------ bounds --------------------------------- *)

MaxRows == 2

MaxFillRows == 4

(* ------------------------------ cells ---------------------------------- *)

Range(s) == {s[i] : i \in 1..Len(s)}

Text == <<"2024-01-01", "2024-01-02", "A1", "Unknown", "a", "b", "bad", "soon">>

TextIndex(s) == CHOOSE i \in 1..Len(Text) : Text[i] = s

NA == [t |-> "na", n |-> 0]

Num(v) == [t |-> "num", n |-> 2 * v]

Str(s) == [t |-> "str", n |-> TextIndex(s)]

Date(d) == [t |-> "date", n |-> d]

isnull(cell) == cell.t = "na"

Column(rows, c) == [i \in 1..Len(rows) |-> rows[i].cells[c]]

Index(rows) == {rows[i].idx : i \in 1..Len(rows)}

RECURSIVE Take(_, _, _)
\* The rows of s at the positions in keep, in their order (boolean-mask indexing).
Take(s, keep, k) ==
    IF k > Len(s) THEN <<>>
    ELSE IF k \in keep THEN <<s[k]>> \o Take(s, keep, k + 1)
    ELSE Take(s, keep, k + 1)

NoDtype == [c \in {} |-> "object"]

NoErr == [type |-> "none", key |-> "", at |-> ""]

(* ---------------------------- pandas calls ----------------------------- *)

\* read_csv's type inference for one column.
InferDtype(vals) ==
    IF Len(vals) = 0 THEN "object"
    ELSE IF \E i \in 1..Len(vals) : vals[i].t = "str" THEN "object"
    ELSE IF \E i \in 1..Len(vals) : isnull(vals[i]) THEN "float64"
    ELSE "int64"

read_csv(file) ==
    [i \in 1..Len(file.rows) |-> [idx |-> i, cells |-> file.rows[i]]]

\* pd.to_datetime(..., errors='coerce') on one cell.
to_datetime(cell) ==
    IF cell.t = "str" /\ Text[cell.n] = "2024-01-01" THEN Date(20240101)
    ELSE IF cell.t = "str" /\ Text[cell.n] = "2024-01-02" THEN Date(20240102)
    ELSE NA

ParseColumn(rows, c) ==
    [i \in 1..Len(rows) |->
        [rows[i] EXCEPT !.cells = [@ EXCEPT ![c] = to_datetime(@)]]]

\* Variant: drop_duplicates(keep="last").
drop_duplicates_last(rows) ==
    Take(rows, {i \in 1..Len(rows) :
                    \A j \in (i + 1)..Len(rows) : rows[j].cells # rows[i].cells}, 1)

\* DataFrame.drop_duplicates(): keep the first of equal rows; missing equals missing.
drop_duplicates(rows) ==
    Take(rows, {i \in 1..Len(rows) :
                    \A j \in 1..(i - 1) : rows[j].cells # rows[i].cells}, 1)

dropna(rows) ==
    Take(rows, {i \in 1..Len(rows) :
                    \A c \in DOMAIN rows[i].cells : ~isnull(rows[i].cells[c])}, 1)

NotNull(vals) == Take(vals, {i \in 1..Len(vals) : ~isnull(vals[i])}, 1)

RECURSIVE Insert(_, _)
Insert(x, s) ==
    IF s = <<>> THEN <<x>>
    ELSE IF x <= Head(s) THEN <<x>> \o s
    ELSE <<Head(s)>> \o Insert(x, Tail(s))

RECURSIVE Sorted(_)
Sorted(s) == IF s = <<>> THEN <<>> ELSE Insert(Head(s), Sorted(Tail(s)))

RECURSIVE Sum(_)
Sum(s) == IF s = <<>> THEN 0 ELSE Head(s) + Sum(Tail(s))

\* Variant: the mean (truncated to a half) in place of the median.
mean(vals) ==
    LET v == NotNull(vals)
    IN  IF Len(v) = 0 THEN NA
        ELSE [t |-> "num", n |-> Sum([i \in 1..Len(v) |-> v[i].n]) \div Len(v)]

\* Series.median(): skips missing values; NaN when nothing is left.
median(vals) ==
    LET v == NotNull(vals)
        s == Sorted([i \in 1..Len(v) |-> v[i].n])
        k == Len(s)
    IN  IF k = 0 THEN NA
        ELSE IF k % 2 = 1 THEN [t |-> "num", n |-> s[(k + 1) \div 2]]
        ELSE [t |-> "num", n |-> (s[k \div 2] + s[k \div 2 + 1]) \div 2]

Count(vals, x) == Cardinality({i \in 1..Len(vals) : vals[i] = x})

\* Series.mode()[0]: the most frequent non-missing value, the smallest on ties
\* (mode() returns the modes sorted).  Only used when one exists.
mode(vals) ==
    LET v == NotNull(vals)
        most == {x \in Range(v) : \A y \in Range(v) : Count(v, x) >= Count(v, y)}
    IN  CHOOSE x \in most : \A y \in most : x.n <= y.n

\* df[col].fillna(value, inplace=True): the fill reaches df itself (pandas
\* without copy-on-write); filling with NaN changes nothing.
fillna(rows, c, value) ==
    IF isnull(value) THEN rows
    ELSE [i \in 1..Len(rows) |->
            IF isnull(rows[i].cells[c])
            THEN [rows[i] EXCEPT !.cells = [@ EXCEPT ![c] = value]]
            ELSE rows[i]]

IsNumeric(dt) == dt \in {"int64", "float64"}

(* ------------------------- missing-value handling ---------------------- *)

RECURSIVE FillCentral(_, _, _, _)
\* The loop of lines 58-62 from column k on; "raised" is the column whose
\* mode()[0] found no value, or "" when the loop ran to its end.
FillCentral(rows, dt, cols, k) ==
    IF k > Len(cols) THEN [df |-> rows, dtype |-> dt, raised |-> ""]
    ELSE LET c == cols[k]
             vals == Column(rows, c)
         IN  IF IsNumeric(dt[c])
             THEN FillCentral(fillna(rows, c, median(vals)), dt, cols, k + 1)
             ELSE IF Len(NotNull(vals)) = 0
             THEN [df |-> rows, dtype |-> dt, raised |-> c]
             ELSE FillCentral(fillna(rows, c, mode(vals)), dt, cols, k + 1)

RECURSIVE FillConstant(_, _, _, _)
\* The loop of lines 64-68 from column k on.  Filling a datetime column with
\* the text "Unknown" turns the column into an object column.
FillConstant(rows, dt, cols, k) ==
    IF k > Len(cols) THEN [df |-> rows, dtype |-> dt, raised |-> ""]
    ELSE LET c == cols[k]
             vals == Column(rows, c)
             hasNull == \E i \in 1..Len(vals) : isnull(vals[i])
         IN  IF IsNumeric(dt[c])
             THEN FillConstant(fillna(rows, c, Num(0)), dt, cols, k + 1)
             ELSE FillConstant(fillna(rows, c, Str("Unknown")),
                               IF hasNull THEN [dt EXCEPT ![c] = "object"] ELSE dt,
                               cols, k + 1)

Handle(rows, dt, cols, option) ==
    IF option = "Drop rows"
    THEN [df |-> dropna(rows), dtype |-> dt, raised |-> ""]
    ELSE IF option = "Fill with mean/median/mode"
    THEN FillCentral(rows, dt, cols, 1)
    ELSE FillConstant(rows, dt, cols, 1)

(* --------------------------- invalid rows ------------------------------ *)

lt0(cell) == cell.t = "num" /\ cell.n < 0

le0(cell) == cell.t = "num" /\ cell.n <= 0

ge0(cell) == cell.t = "num" /\ cell.n >= 0

gt0(cell) == cell.t = "num" /\ cell.n > 0

InvalidMask(rows) ==
    {i \in 1..Len(rows) : lt0(rows[i].cells["price"]) \/ le0(rows[i].cells["quantity"])}

\* Variant: quantity >= 0 in place of quantity > 0.
ValidMaskLoose(rows) ==
    {i \in 1..Len(rows) : ge0(rows[i].cells["price"]) /\ ge0(rows[i].cells["quantity"])}

\* Variant: price > 0 in place of price >= 0.
ValidMaskStrict(rows) ==
    {i \in 1..Len(rows) : gt0(rows[i].cells["price"]) /\ gt0(rows[i].cells["quantity"])}

ValidMask(rows) ==
    {i \in 1..Len(rows) : ge0(rows[i].cells["price"]) /\ gt0(rows[i].cells["quantity"])}

(* --------------------------- classification ---------------------------- *)

id_cols == {"order_id", "customer_id", "product_id"}

NumericCols(cols, dt) ==
    SelectSeq(cols, LAMBDA c : IsNumeric(dt[c]) /\ c \notin id_cols)

CategoricalCols(cols, dt) ==
    SelectSeq(cols, LAMBDA c : dt[c] = "object")

(* ----------------------------- the files ------------------------------- *)

SeqsUpTo(S, n) == UNION {[1..k -> S] : k \in 0..n}

Restrict(r, cols) == [c \in Range(cols) |-> r[c]]

MissingOptions ==
    {"Drop rows", "Fill with mean/median/mode", "Fill with constant (e.g., 0)"}

DateRows ==
    [order_date : {Str("2024-01-01"), Str("bad"), Str("soon")},
     price : {NA, Num(3)}, quantity : {Num(2)}, category : {Str("a")}]

ValueRows ==
    [order_date : {Str("2024-01-01")},
     price : {NA, Num(-1), Num(0), Num(3)}, quantity : {NA, Num(0), Num(2)},
     category : {Str("a")}]

Layouts ==
    {<<"order_date", "price", "quantity", "category">>,
     <<"price", "quantity", "category">>,
     <<"order_date", "quantity", "category">>,
     <<"order_date", "price", "category">>,
     <<"order_date", "price", "quantity">>}

GeneralFiles ==
    {[columns |-> cols, rows |-> [i \in 1..Len(t) |-> Restrict(t[i], cols)]] :
        t \in SeqsUpTo(DateRows \cup ValueRows, MaxRows), cols \in Layouts}

FillColumns == <<"order_id", "order_date", "price", "quantity", "category">>

FillRow(i, price, category) ==
    [order_id |-> Num(i), order_date |-> Str("2024-01-01"), price |-> price,
     quantity |-> Num(2), category |-> category]

FillFiles ==
    {[columns |-> FillColumns, rows |-> [i \in 1..Len(p) |-> FillRow(i, p[i], Str("a"))]] :
        p \in SeqsUpTo({NA, Num(1), Num(2), Num(4)}, MaxFillRows)}
    \cup
    {[columns |-> FillColumns, rows |-> [i \in 1..Len(g) |-> FillRow(i, Num(3), g[i])]] :
        g \in SeqsUpTo({NA, Str("a"), Str("b")}, MaxFillRows)}

IdValues == {Num(7), NA, Str("A1")}

IdFiles ==
    {[columns |-> <<"order_id", "customer_id", "product_id", "order_date",
                    "price", "quantity", "category">>,
      rows |-> <<r>>] :
        r \in [order_id : IdValues, customer_id : IdValues, product_id : IdValues,
               order_date : {Str("2024-01-01")}, price : {Num(3)},
               quantity : {Num(2)}, category : {Str("a")}]}

Files == GeneralFiles \cup FillFiles \cup IdFiles

(* ------------------------------ the script ----------------------------- *)

Init ==
    /\ uploaded_file \in Files
    /\ missing_option = "Drop rows"
    /\ df = <<>>
    /\ columns = <<>>
    /\ dtype = NoDtype
    /\ before_dupes = 0
    /\ after_dupes = 0
    /\ invalid_rows = 0
    /\ numeric_cols = <<>>
    /\ categorical_cols = <<>>
    /\ pc = "read"
    /\ err = NoErr

Raise(type, key) ==
    /\ pc' = "error"
    /\ err' = [type |-> type, key |-> key, at |-> pc]

ReadCsv ==
    /\ pc = "read"
    /\ df' = read_csv(uploaded_file)
    /\ columns' = uploaded_file.columns
    /\ dtype' = [c \in Range(uploaded_file.columns) |->
                    InferDtype(Column(read_csv(uploaded_file), c))]
    /\ pc' = "parse"
    /\ UNCHANGED <<uploaded_file, missing_option, before_dupes, after_dupes,
                   invalid_rows, numeric_cols, categorical_cols, err>>

ParseDates ==
    /\ pc = "parse"
    /\ IF "order_date" \notin Range(columns)
       THEN /\ Raise("KeyError", "order_date")
            /\ UNCHANGED <<df, dtype>>
       ELSE /\ df' = ParseColumn(df, "order_date")
            /\ dtype' = [dtype EXCEPT !["order_date"] = "datetime64[ns]"]
            /\ pc' = "dupes"
            /\ err' = err
    /\ UNCHANGED <<uploaded_file, missing_option, columns, before_dupes, after_dupes,
                   invalid_rows, numeric_cols, categorical_cols>>

RemoveDuplicates ==
    /\ pc = "dupes"
    /\ before_dupes' = Len(df)
    /\ df' = drop_duplicates(df)
    /\ after_dupes' = Len(drop_duplicates(df))
    /\ pc' = "missing"
    /\ UNCHANGED <<uploaded_file, missing_option, columns, dtype, invalid_rows,
                   numeric_cols, categorical_cols, err>>

HandleMissing ==
    /\ pc = "missing"
    /\ LET r == Handle(df, dtype, columns, missing_option)
       IN  /\ df' = r.df
           /\ dtype' = r.dtype
           /\ IF r.raised # ""
              THEN Raise("KeyError", "0")
              ELSE pc' = "invalid" /\ err' = err
    /\ UNCHANGED <<uploaded_file, missing_option, columns, before_dupes, after_dupes,
                   invalid_rows, numeric_cols, categorical_cols>>

RemoveInvalid ==
    /\ pc = "invalid"
    /\ IF "price" \notin Range(columns)
       THEN Raise("KeyError", "price") /\ UNCHANGED <<df, invalid_rows>>
       ELSE IF "quantity" \notin Range(columns)
       THEN Raise("KeyError", "quantity") /\ UNCHANGED <<df, invalid_rows>>
       ELSE /\ invalid_rows' = Cardinality(InvalidMask(df))
            /\ df' = Take(df, ValidMask(df), 1)
            /\ pc' = "cols"
            /\ err' = err
    /\ UNCHANGED <<uploaded_file, missing_option, columns, dtype, before_dupes,
                   after_dupes, numeric_cols, categorical_cols>>

IdentifyCols ==
    /\ pc = "cols"
    /\ numeric_cols' = NumericCols(columns, dtype)
    /\ categorical_cols' = CategoricalCols(columns, dtype)
    /\ pc' = "tab2"
    /\ UNCHANGED <<uploaded_file, missing_option, df, columns, dtype, before_dupes,
                   after_dupes, invalid_rows, err>>

Tab2Univariate ==
    /\ pc = "tab2"
    /\ pc' = "tab3"
    /\ UNCHANGED <<uploaded_file, missing_option, df, columns, dtype, before_dupes,
                   after_dupes, invalid_rows, numeric_cols, categorical_cols, err>>

Tab3Categorical ==
    /\ pc = "tab3"
    /\ pc' = "tab4"
    /\ UNCHANGED <<uploaded_file, missing_option, df, columns, dtype, before_dupes,
                   after_dupes, invalid_rows, numeric_cols, categorical_cols, err>>

Tab4Bivariate ==
    /\ pc = "tab4"
    /\ pc' = "tab5"
    /\ UNCHANGED <<uploaded_file, missing_option, df, columns, dtype, before_dupes,
                   after_dupes, invalid_rows, numeric_cols, categorical_cols, err>>

\* df['date'] = df['order_date'].dt.date
AddDateColumn(rows) ==
    [i \in 1..Len(rows) |->
        [rows[i] EXCEPT !.cells =
            [c \in DOMAIN rows[i].cells \cup {"date"} |->
                IF c = "date" THEN rows[i].cells["order_date"] ELSE rows[i].cells[c]]]]

\* Variant: df reassigned to the per-day aggregate, one row per day.
FirstOfEachDay(rows) ==
    Take(rows, {i \in 1..Len(rows) :
                    \A j \in 1..(i - 1) : rows[j].cells["date"] # rows[i].cells["date"]}, 1)

\* Variant of tab 5 that replaces df by the aggregate.
Tab5TimeCorrelationAggregated ==
    /\ pc = "tab5"
    /\ IF "order_date" \in Range(columns) /\ "price" \in Range(columns)
       THEN IF dtype["order_date"] # "datetime64[ns]"
            THEN /\ Raise("AttributeError", "dt")
                 /\ UNCHANGED <<df, columns, dtype>>
            ELSE /\ df' = FirstOfEachDay(AddDateColumn(df))
                 /\ columns' = Append(columns, "date")
                 /\ dtype' = [c \in DOMAIN dtype \cup {"date"} |->
                                IF c = "date" THEN "object" ELSE dtype[c]]
                 /\ pc' = "done"
                 /\ err' = err
       ELSE /\ pc' = "done"
            /\ UNCHANGED <<df, columns, dtype, err>>
    /\ UNCHANGED <<uploaded_file, missing_option, before_dupes, after_dupes,
                   invalid_rows, numeric_cols, categorical_cols>>

Tab5TimeCorrelation ==
    /\ pc = "tab5"
    /\ IF "order_date" \in Range(columns) /\ "price" \in Range(columns)
       THEN IF dtype["order_date"] # "datetime64[ns]"
            THEN /\ Raise("AttributeError", "dt")
                 /\ UNCHANGED <<df, columns, dtype>>
            ELSE /\ df' = AddDateColumn(df)
                 /\ columns' = Append(columns, "date")
                 /\ dtype' = [c \in DOMAIN dtype \cup {"date"} |->
                                IF c = "date" THEN "object" ELSE dtype[c]]
                 /\ pc' = "done"
                 /\ err' = err
       ELSE /\ pc' = "done"
            /\ UNCHANGED <<df, columns, dtype, err>>
    /\ UNCHANGED <<uploaded_file, missing_option, before_dupes, after_dupes,
                   invalid_rows, numeric_cols, categorical_cols>>

\* The radio is on the page once line 50 has run.
RadioShown == pc = "done" \/ (pc = "error" /\ err.at \notin {"read", "parse"})

\* Variant: a radio change resumes at the missing-value step on the df at hand.
RerunIncremental(option) ==
    /\ RadioShown
    /\ missing_option' = option
    /\ pc' = "missing"
    /\ err' = NoErr
    /\ UNCHANGED <<uploaded_file, df, columns, dtype, before_dupes, after_dupes,
                   invalid_rows, numeric_cols, categorical_cols>>

\* A widget interaction: Streamlit runs the script again from its first line,
\* in a fresh namespace, with the radio's value.
Rerun(option) ==
    /\ RadioShown
    /\ missing_option' = option
    /\ df' = <<>>
    /\ columns' = <<>>
    /\ dtype' = NoDtype
    /\ before_dupes' = 0
    /\ after_dupes' = 0
    /\ invalid_rows' = 0
    /\ numeric_cols' = <<>>
    /\ categorical_cols' = <<>>
    /\ pc' = "read"
    /\ err' = NoErr
    /\ UNCHANGED uploaded_file

Next ==
    \/ ReadCsv
    \/ ParseDates
    \/ RemoveDuplicates
    \/ HandleMissing
    \/ RemoveInvalid
    \/ IdentifyCols
    \/ Tab2Univariate
    \/ Tab3Categorical
    \/ Tab4Bivariate
    \/ Tab5TimeCorrelation
    \/ \E option \in MissingOptions : Rerun(option)

Spec == Init /\ [][Next]_vars

(* ------------------------------ properties ----------------------------- *)

Central == "Fill with mean/median/mode"

Constant == "Fill with constant (e.g., 0)"

\* Where the run is, or was when it raised.
Stage == IF pc = "error" THEN err.at ELSE pc

Classified == Stage \in {"tab2", "tab3", "tab4", "tab5", "done"}

Cleaned == Stage = "cols" \/ Classified

Raw(i) == uploaded_file.rows[i]

HasColumns(cs) == cs \subseteq Range(uploaded_file.columns)

\* C1: once the cleaning pipeline has completed, every row of the cleaned
\* table has price >= 0 and quantity > 0, whatever the missing-value strategy.
C1_ValidRows ==
    Cleaned =>
        \A k \in 1..Len(df) :
            ge0(df[k].cells["price"]) /\ gt0(df[k].cells["quantity"])

C1_Witness ==
    /\ pc = "done"
    /\ missing_option = Central
    /\ Len(df) > 0
    /\ \E i \in 1..Len(uploaded_file.rows) :
            /\ lt0(Raw(i)["price"]) \/ le0(Raw(i)["quantity"])
            /\ i \notin Index(df)

\* C2: after the missing-value handling step has run, no cell of the table is
\* missing, for every file and every strategy.
C2_NoMissingAfterHandling ==
    (Stage = "invalid" \/ Cleaned) =>
        \A k \in 1..Len(df) : \A c \in DOMAIN df[k].cells : ~isnull(df[k].cells[c])

\* C3: the run never aborts because price, quantity or order_date is absent
\* from the file.
C3_AbsentColumnNeverAborts ==
    ~(/\ pc = "error"
      /\ err.type = "KeyError"
      /\ err.key \in {"price", "quantity", "order_date"}
      /\ ~HasColumns({err.key}))

\* C4: the invalid-row filter runs on the table as filled: under constant fill a
\* row whose quantity was missing holds quantity 0 and is removed by the filter,
\* and a row whose price was missing holds price 0 and, its quantity being > 0,
\* is kept.
C4_AsymmetricOrder ==
    [][(pc = "invalid" /\ pc' = "cols" /\ missing_option = Constant) =>
        \A k \in 1..Len(df) :
            /\ isnull(Raw(df[k].idx)["quantity"]) =>
                    /\ df[k].cells["quantity"] = Num(0)
                    /\ df[k].idx \notin Index(df')
            /\ (isnull(Raw(df[k].idx)["price"]) /\ gt0(Raw(df[k].idx)["quantity"])) =>
                    /\ df[k].cells["price"] = Num(0)
                    /\ df[k].idx \in Index(df')]_vars

C4_Witness ==
    /\ Cleaned
    /\ missing_option = Constant
    /\ \E i \in 1..Len(uploaded_file.rows) :
            /\ isnull(Raw(i)["quantity"])
            /\ gt0(Raw(i)["price"])
            /\ i \notin Index(df)
    /\ \E k \in 1..Len(df) :
            /\ isnull(Raw(df[k].idx)["price"])
            /\ df[k].cells["price"] = Num(0)

\* C5: after classification the identifier, numeric and categorical sets are
\* pairwise disjoint: no identifier column of the table is numeric or
\* categorical, and no column is both numeric and categorical.
C5_DisjointClassification ==
    Classified =>
        /\ \A c \in id_cols \cap Range(columns) :
                c \notin Range(numeric_cols) /\ c \notin Range(categorical_cols)
        /\ Range(numeric_cols) \cap Range(categorical_cols) = {}

Below(ns, x) == Cardinality({i \in 1..Len(ns) : ns[i] < x})

AtMost(ns, x) == Cardinality({i \in 1..Len(ns) : ns[i] <= x})

\* x is the k-th smallest of ns.
IsKth(ns, x, k) == Below(ns, x) < k /\ k <= AtMost(ns, x)

\* m is the middle value of vals, or the midpoint of its two middle values.
IsMedianOf(m, vals) ==
    LET ns == [i \in 1..Len(vals) |-> vals[i].n]
        k == Len(ns)
    IN  /\ m.t = "num"
        /\ \E lo, hi \in Range(ns) :
                /\ IsKth(ns, lo, (k + 1) \div 2)
                /\ IsKth(ns, hi, k \div 2 + 1)
                /\ 2 * m.n = lo + hi

\* m is a most frequent value of vals, and the least of them.
IsFirstModeOf(m, vals) ==
    /\ m \in Range(vals)
    /\ \A y \in Range(vals) :
            \/ Count(vals, m) > Count(vals, y)
            \/ (Count(vals, m) = Count(vals, y) /\ m.n <= y.n)

\* C6: the central-tendency fill removes no row and changes no value that is
\* present; a missing value of a numeric column becomes the median of the
\* column's values that are present, a missing value of any other column the
\* column's most frequent value, the first of the sorted modes on ties.
C6_CentralFill ==
    [][(pc = "missing" /\ pc' = "invalid" /\ missing_option = Central) =>
        /\ Len(df') = Len(df)
        /\ \A k \in 1..Len(df) :
            /\ df'[k].idx = df[k].idx
            /\ \A c \in Range(columns) :
                LET old == df[k].cells[c]
                    new == df'[k].cells[c]
                    vals == NotNull(Column(df, c))
                IN  /\ ~isnull(old) => new = old
                    /\ (isnull(old) /\ Len(vals) > 0) =>
                            IF IsNumeric(dtype[c])
                            THEN IsMedianOf(new, vals)
                            ELSE IsFirstModeOf(new, vals)]_vars

\* The column [1, 2, missing, 4]: the missing price has become 2.
C6_Witness ==
    /\ pc = "invalid"
    /\ missing_option = Central
    /\ Len(uploaded_file.rows) = 4
    /\ [i \in 1..4 |-> Raw(i)["price"]] = <<Num(1), Num(2), NA, Num(4)>>
    /\ Column(df, "price") = <<Num(1), Num(2), Num(2), Num(4)>>

\* C7: the count of invalid rows reported is the number of rows the filter
\* removes.
C7_ReportedInvalidCount ==
    [][(pc = "invalid" /\ pc' = "cols") =>
            Len(df) - Len(df') = invalid_rows']_vars

RawDuplicate(i) == \E j \in 1..(i - 1) : Raw(j) = Raw(i)

\* C8 as stated: deduplication compares the raw values, so the rows left by it
\* are those that equal no earlier row of the file in every column, and the
\* count reported is the number of the others.
C8_DedupComparesRawValues ==
    pc = "missing" =>
        /\ Index(df) = {i \in 1..Len(uploaded_file.rows) : ~RawDuplicate(i)}
        /\ before_dupes - after_dupes =
                Cardinality({i \in 1..Len(uploaded_file.rows) : RawDuplicate(i)})

SameParsed(a, b) ==
    \A c \in DOMAIN a :
        IF c = "order_date" THEN to_datetime(a[c]) = to_datetime(b[c]) ELSE a[c] = b[c]

ParsedDuplicate(i) == \E j \in 1..(i - 1) : SameParsed(Raw(j), Raw(i))

\* C8 as amended: deduplication runs after date parsing and compares the
\* parsed values: a row is removed when an earlier row equals it in every
\* column once order_date is coerced (every unparseable text to the one missing
\* date), and the count reported is the number of rows so removed.
C8_DedupComparesParsedValues ==
    pc = "missing" =>
        /\ Index(df) = {i \in 1..Len(uploaded_file.rows) : ~ParsedDuplicate(i)}
        /\ before_dupes - after_dupes =
                Cardinality({i \in 1..Len(uploaded_file.rows) : ParsedDuplicate(i)})

C8_Witness ==
    /\ pc = "missing"
    /\ Len(uploaded_file.rows) = 2
    /\ Raw(1)["order_date"] = Str("bad")
    /\ Raw(2)["order_date"] = Str("soon")
    /\ Index(df) = {1}
    /\ before_dupes - after_dupes = 1

Renderers == {"tab2", "tab3", "tab4", "tab5"}

OnePass(file, option) ==
    LET read == read_csv(file)
        dt0 == [c \in Range(file.columns) |-> InferDtype(Column(read, c))]
        parsed == ParseColumn(read, "order_date")
        dt1 == [dt0 EXCEPT !["order_date"] = "datetime64[ns]"]
        deduped == drop_duplicates(parsed)
        handled == Handle(deduped, dt1, file.columns, option)
        cleaned == Take(handled.df, ValidMask(handled.df), 1)
    IN  [df |-> cleaned,
         numeric_cols |-> NumericCols(file.columns, handled.dtype),
         categorical_cols |-> CategoricalCols(file.columns, handled.dtype),
         removed_dupes |-> Len(parsed) - Len(deduped),
         invalid_rows |-> Cardinality(InvalidMask(handled.df))]

\* C10: the uploaded file is never altered, and whatever strategies were chosen
\* before, the table, the classification and the report the script arrives at
\* are those of one pass over the file with the strategy now selected.
C10_RerunFromRawTable ==
    [][/\ uploaded_file' = uploaded_file
       /\ (pc = "cols" /\ pc' = "tab2") =>
            [df |-> df', numeric_cols |-> numeric_cols',
             categorical_cols |-> categorical_cols',
             removed_dupes |-> before_dupes' - after_dupes',
             invalid_rows |-> invalid_rows'] = OnePass(uploaded_file, missing_option')]_vars

\* Reached only by a rerun (the radio starts on "Drop rows"), and it holds a
\* row the earlier "Drop rows" pass had removed.
C10_Witness ==
    /\ pc = "tab2"
    /\ missing_option = Constant
    /\ \E k \in 1..Len(df) :
            \E c \in DOMAIN Raw(df[k].idx) : isnull(Raw(df[k].idx)[c])

====
